---- MODULE Spec2Model ----
(***************************************************************************)
(* Model of the USB-PD sink negotiation engine (usb-pd/src/sink.rs).       *)
(* The transceiver (trait Driver) is the environment: its state and its    *)
(* event queue change nondeterministically inside its init() and poll().   *)
(***************************************************************************)
EXTENDS Integers, Sequences, FiniteSets, TLC

\* ------------------------------------------------------------------ bounds
MaxQueue == 2       \* depth of the transceiver's event queue
MaxCaps  == 4       \* objects in a SourceCapabilities message (capacity is 8)
MaxSent  == 3       \* Requests sent in one run
MaxWords == 2       \* whole 4-byte words in a payload given to parse

\* --------------------------------------------------------------- constants
U16Max          == 65535    \* u16 fields and arguments
DefaultVoltage  == 5000     \* mV
DefaultCurrent  == 900      \* mA
CurrentFieldMax == 1023     \* 0x3ff
PayloadLen      == 4        \* let mut payload = [0; 4]
VecCapacity     == 8        \* Vec<PowerDataObject, 8>
MaxNumObjects   == 7        \* Header::num_objects is a 3-bit field

VARIABLES
    protocol_,              \* Sink.protocol_
    requested_voltage,      \* Sink.requested_voltage
    requested_max_current,  \* Sink.requested_max_current
    active_voltage,         \* Sink.active_voltage
    active_max_current,     \* Sink.active_max_current
    spec_rev,               \* Sink.spec_rev
    drv_state,              \* what pd_controller.state() returns
    queue,                  \* events pd_controller.get_event() will return
    pc,                     \* "idle" | "poll" | "get" | "panicked"
    caps,                   \* the Vec moved into handle_msg by this iteration
    last_req,               \* last (header, payload) given to send_message
    notes,                  \* CallbackEvents passed to notify() by this step
    last_op,                \* the operation or event the last step ran
    sent_count,             \* number of send_message calls so far
    req_phase,              \* history: "none" after Reject or Ready, "open" after
                            \* a Request, "disturbed" by a later StateChanged
    entry_queue,            \* history: the queue when the observed poll began
    rx_revs,                \* the spec revision in the header of each of the
                            \* messages of entry_queue
    drv_polls,              \* history: pd_controller.poll calls of that poll
    parse_in,               \* the (header, payload) given to Message::parse
    parse_out               \* what Message::parse made of it

vars == <<protocol_, requested_voltage, requested_max_current, active_voltage,
          active_max_current, spec_rev, drv_state, queue, pc, caps, last_req,
          notes, last_op, sent_count, req_phase, entry_queue, rx_revs,
          drv_polls, parse_in, parse_out>>

sinkFields == <<protocol_, requested_voltage, requested_max_current,
                active_voltage, active_max_current, spec_rev>>

\* recorded only where one poll call is observed (SpecDrain)
histVars == <<entry_queue, rx_revs, drv_polls>>

\* used only where Message::parse is applied (SpecParse)
parseVars == <<parse_in, parse_out>>

auxVars == <<histVars, parseVars>>

\* ------------------------------------------------------------------- types
State == {"Usb20", "UsbPdWait", "UsbPd", "UsbRetryWait"}

EventKinds == {"StateChanged", "Accept", "Reject", "Ready",
               "SourceCapabilities", "Unknown"}

Fixed(v, c) == [kind |-> "FixedSupply", voltage |-> v, max_current |-> c]

Battery == [kind |-> "Battery", voltage |-> 0, max_current |-> 0]

\* 5000mV/900mA, 9000mV/1500mA, 9000mV/3000mA in 50mV and 10mA units
PowerDataObject == {Fixed(100, 90), Fixed(180, 150), Fixed(180, 300), Battery}

CapsUniverse == UNION {[1..n -> PowerDataObject] : n \in 0..MaxCaps}

NoReq == [sent |-> FALSE]

NoFrame == [given |-> FALSE]

NotParsed == [done |-> FALSE]

\* -------------------------------------------------------------- arithmetic
\* u16 addition: an overflow panics (overflow checks on) or wraps (off)
AddU16(a, b) ==
    IF a + b <= U16Max
    THEN {[ok |-> TRUE, val |-> a + b]}
    ELSE {[ok |-> FALSE, val |-> 0], [ok |-> TRUE, val |-> (a + b) % (U16Max + 1)]}

\* u16 multiplication, likewise
MulU16(a, b) ==
    IF a * b <= U16Max
    THEN {[ok |-> TRUE, val |-> a * b]}
    ELSE {[ok |-> FALSE, val |-> 0], [ok |-> TRUE, val |-> (a * b) % (U16Max + 1)]}

\* ------------------------------------------------------ request construction
NoRdo == [operating_current |-> 0, maximum_operating_current |-> 0,
          object_position |-> 0, no_usb_suspend |-> FALSE,
          usb_communications_capable |-> FALSE]

set_request_payload_fixed_Clamp9(obj_pos, voltage, current) ==
    {IF s.ok
     THEN [ok |-> TRUE,
           rdo |-> [operating_current |->
                        IF s.val \div 10 > 511 THEN 511 ELSE s.val \div 10,
                    maximum_operating_current |->
                        IF s.val \div 10 > 511 THEN 511 ELSE s.val \div 10,
                    object_position |-> obj_pos,
                    no_usb_suspend |-> TRUE,
                    usb_communications_capable |-> TRUE]]
     ELSE [ok |-> FALSE, rdo |-> NoRdo] : s \in AddU16(current, 5)}

\* the outcomes of set_request_payload_fixed: the request data object written
set_request_payload_fixed(obj_pos, voltage, current) ==
    {IF s.ok
     THEN [ok |-> TRUE,
           rdo |-> [operating_current |->
                        IF s.val \div 10 > CurrentFieldMax THEN CurrentFieldMax
                        ELSE s.val \div 10,
                    maximum_operating_current |->
                        IF s.val \div 10 > CurrentFieldMax THEN CurrentFieldMax
                        ELSE s.val \div 10,
                    object_position |-> obj_pos,
                    no_usb_suspend |-> TRUE,
                    usb_communications_capable |-> TRUE]]
     ELSE [ok |-> FALSE, rdo |-> NoRdo] : s \in AddU16(current, 5)}

RequestHeader_NoObjects(rev) ==
    [message_type |-> "Request", num_objects |-> 0,
     spec_revision |-> rev, port_power_role |-> "Sink"]

\* Header(0).with_message_type_raw(Request).with_num_objects(1)...
RequestHeader(rev) ==
    [message_type |-> "Request", num_objects |-> 1,
     spec_revision |-> rev, port_power_role |-> "Sink"]

\* the outcomes of request_power: the frame handed to send_message, or a panic
request_power(voltage, max_current, index) ==
    {IF p.ok
     THEN [ok |-> TRUE,
           req |-> [sent |-> TRUE, voltage |-> voltage,
                    max_current |-> max_current,
                    header |-> RequestHeader(spec_rev),
                    payload_len |-> PayloadLen,
                    rdo |-> p.rdo]]
     ELSE [ok |-> FALSE, req |-> NoReq]
       : p \in set_request_payload_fixed(index % 256, voltage, max_current)}

\* ------------------------------------------------------------ offer selection
\* Iterator::max_by over (index, supply): the later element wins unless the
\* earlier one compares Greater
MaxByVoltage_First(cs, a, b) ==
    IF cs[a].voltage >= cs[b].voltage THEN a ELSE b

MaxByVoltage(cs, a, b) ==
    IF cs[a].voltage > cs[b].voltage THEN a ELSE b

\* the 1-based places of the FixedSupply objects, in order (filter_map)
RECURSIVE FixedPlaces(_, _)
FixedPlaces(cs, k) ==
    IF k > Len(cs) THEN <<>>
    ELSE IF cs[k].kind = "FixedSupply"
         THEN <<k>> \o FixedPlaces(cs, k + 1)
         ELSE FixedPlaces(cs, k + 1)

RECURSIVE FoldMax(_, _, _)
FoldMax(cs, acc, rest) ==
    IF rest = <<>> THEN acc
    ELSE FoldMax(cs, MaxByVoltage(cs, acc, Head(rest)), Tail(rest))

Panic == [ok |-> FALSE, req |-> NoReq]

\* notify(SourceCapabilitiesChanged(caps)): unwrap() panics on no FixedSupply
notify_caps(cs) ==
    LET places == FixedPlaces(cs, 1) IN
    IF places = <<>> THEN {Panic}
    ELSE LET k == FoldMax(cs, Head(places), Tail(places)) IN
         UNION {IF v.ok /\ c.ok
                THEN request_power(v.val, c.val, (k - 1) + 1)
                ELSE {Panic}
                  : v \in MulU16(cs[k].voltage, 50),
                    c \in MulU16(cs[k].max_current, 10)}

\* -------------------------------------------------------------------- Init
\* Sink::new, with a transceiver in any state and nothing queued
Init ==
    /\ protocol_ = "Usb20"
    /\ requested_voltage = 0
    /\ requested_max_current = 0
    /\ active_voltage = DefaultVoltage
    /\ active_max_current = DefaultCurrent
    /\ spec_rev = 1
    /\ drv_state \in State
    /\ queue = <<>>
    /\ pc = "idle"
    /\ caps = <<>>
    /\ last_req = NoReq
    /\ notes = <<>>
    /\ last_op = "new"
    /\ sent_count = 0
    /\ req_phase = "none"
    /\ entry_queue = <<>>
    /\ rx_revs = <<>>
    /\ drv_polls = 0
    /\ parse_in = NoFrame
    /\ parse_out = NotParsed

\* ------------------------------------------------------------ update_protocol
update_protocol_WaitIsPd(st) ==
    /\ protocol_' = IF st \in {"UsbPd", "UsbPdWait"} THEN "UsbPd" ELSE "Usb20"
    /\ active_voltage' =
           IF st \in {"UsbPd", "UsbPdWait"} THEN active_voltage ELSE DefaultVoltage
    /\ active_max_current' =
           IF st \in {"UsbPd", "UsbPdWait"} THEN active_max_current ELSE DefaultCurrent

\* update_protocol with st the value state() returns; it returns
\* protocol_' # protocol_
update_protocol(st) ==
    /\ protocol_' = IF st = "UsbPd" THEN "UsbPd" ELSE "Usb20"
    /\ active_voltage' = IF st = "UsbPd" THEN active_voltage ELSE DefaultVoltage
    /\ active_max_current' =
           IF st = "UsbPd" THEN active_max_current ELSE DefaultCurrent

\* ------------------------------------------------------------------ actions
SinkInit_StateFirst ==
    /\ pc = "idle"
    /\ drv_state' \in State
    /\ queue' \in {queue, <<>>}
    /\ update_protocol(drv_state)
    /\ notes' = <<>>
    /\ last_op' = "init"
    /\ UNCHANGED <<requested_voltage, requested_max_current, spec_rev, pc,
                   caps, last_req, sent_count, req_phase>>
    /\ UNCHANGED auxVars

\* Sink::init: pd_controller.init() then update_protocol(), result dropped
SinkInit ==
    /\ pc = "idle"
    /\ drv_state' \in State
    /\ queue' \in {queue, <<>>}
    /\ update_protocol(drv_state')
    /\ notes' = <<>>
    /\ last_op' = "init"
    /\ UNCHANGED <<requested_voltage, requested_max_current, spec_rev, pc,
                   caps, last_req, sent_count, req_phase>>
    /\ UNCHANGED auxVars

\* a call of Sink::poll enters the loop
PollEnterBody ==
    /\ pc = "idle"
    /\ pc' = "poll"
    /\ notes' = <<>>
    /\ last_op' = "poll"
    /\ caps' = <<>>
    /\ UNCHANGED <<sinkFields, drv_state, queue, last_req, sent_count, req_phase>>

\* pd_controller.poll(now): the transceiver may change state and queue an event
DrvPollBody ==
    /\ pc = "poll"
    /\ drv_state' \in State
    /\ \/ queue' = queue
       \/ /\ Len(queue) < MaxQueue
          /\ \E e \in EventKinds : queue' = Append(queue, e)
    /\ pc' = "get"
    /\ notes' = <<>>
    /\ last_op' = "drv_poll"
    /\ caps' = <<>>
    /\ UNCHANGED <<sinkFields, last_req, sent_count, req_phase>>

PollEnter == PollEnterBody /\ UNCHANGED auxVars

DrvPoll == DrvPollBody /\ UNCHANGED auxVars

GetNone_Early ==
    /\ pc = "get"
    /\ pc' = "idle"
    /\ notes' = <<>>
    /\ last_op' = "return"
    /\ UNCHANGED <<sinkFields, drv_state, queue, caps, last_req, sent_count, req_phase>>
    /\ UNCHANGED auxVars

\* get_event() returns None: poll returns
GetNone ==
    /\ pc = "get"
    /\ queue = <<>>
    /\ pc' = "idle"
    /\ notes' = <<>>
    /\ last_op' = "return"
    /\ UNCHANGED <<sinkFields, drv_state, queue, caps, last_req, sent_count, req_phase>>
    /\ UNCHANGED auxVars

HandleStateChanged_Level ==
    /\ pc = "get"
    /\ queue # <<>>
    /\ Head(queue) = "StateChanged"
    /\ queue' = Tail(queue)
    /\ update_protocol(drv_state)
    /\ notes' = <<"ProtocolChanged">>
    /\ pc' = "poll"
    /\ last_op' = "StateChanged"
    /\ req_phase' = IF req_phase = "open" THEN "disturbed" ELSE req_phase
    /\ UNCHANGED <<requested_voltage, requested_max_current, spec_rev,
                   drv_state, caps, last_req, sent_count>>
    /\ UNCHANGED auxVars

\* Event::StateChanged: update_protocol(), notify(ProtocolChanged) on a change
HandleStateChanged ==
    /\ pc = "get"
    /\ queue # <<>>
    /\ Head(queue) = "StateChanged"
    /\ queue' = Tail(queue)
    /\ update_protocol(drv_state)
    /\ notes' = IF protocol_' # protocol_ THEN <<"ProtocolChanged">> ELSE <<>>
    /\ pc' = "poll"
    /\ last_op' = "StateChanged"
    /\ req_phase' = IF req_phase = "open" THEN "disturbed" ELSE req_phase
    /\ UNCHANGED <<requested_voltage, requested_max_current, spec_rev,
                   drv_state, caps, last_req, sent_count>>
    /\ UNCHANGED auxVars

HandleAccept_Resend ==
    /\ pc = "get"
    /\ queue # <<>>
    /\ Head(queue) = "Accept"
    /\ queue' = Tail(queue)
    /\ notes' = <<"PowerAccepted">>
    /\ pc' = "poll"
    /\ last_op' = "Accept"
    /\ sent_count' = sent_count + 1
    /\ UNCHANGED <<sinkFields, drv_state, caps, last_req, req_phase>>
    /\ UNCHANGED auxVars

\* Message::Accept
HandleAccept ==
    /\ pc = "get"
    /\ queue # <<>>
    /\ Head(queue) = "Accept"
    /\ queue' = Tail(queue)
    /\ notes' = <<"PowerAccepted">>
    /\ pc' = "poll"
    /\ last_op' = "Accept"
    /\ UNCHANGED <<sinkFields, drv_state, caps, last_req, sent_count, req_phase>>
    /\ UNCHANGED auxVars

HandleReject_Commit ==
    /\ pc = "get"
    /\ queue # <<>>
    /\ Head(queue) = "Reject"
    /\ queue' = Tail(queue)
    /\ active_voltage' = requested_voltage
    /\ active_max_current' = requested_max_current
    /\ requested_voltage' = 0
    /\ requested_max_current' = 0
    /\ notes' = <<"PowerRejected">>
    /\ pc' = "poll"
    /\ last_op' = "Reject"
    /\ req_phase' = "none"
    /\ UNCHANGED <<protocol_, spec_rev, drv_state, caps, last_req, sent_count>>
    /\ UNCHANGED auxVars

\* Message::Reject
HandleReject ==
    /\ pc = "get"
    /\ queue # <<>>
    /\ Head(queue) = "Reject"
    /\ queue' = Tail(queue)
    /\ requested_voltage' = 0
    /\ requested_max_current' = 0
    /\ notes' = <<"PowerRejected">>
    /\ pc' = "poll"
    /\ last_op' = "Reject"
    /\ req_phase' = "none"
    /\ UNCHANGED <<protocol_, active_voltage, active_max_current, spec_rev,
                   drv_state, caps, last_req, sent_count>>
    /\ UNCHANGED auxVars

HandleReady_Swapped ==
    /\ pc = "get"
    /\ queue # <<>>
    /\ Head(queue) = "Ready"
    /\ queue' = Tail(queue)
    /\ requested_voltage' = active_voltage
    /\ requested_max_current' = active_max_current
    /\ active_voltage' = 0
    /\ active_max_current' = 0
    /\ notes' = <<"PowerReady">>
    /\ pc' = "poll"
    /\ last_op' = "Ready"
    /\ req_phase' = "none"
    /\ UNCHANGED <<protocol_, spec_rev, drv_state, caps, last_req, sent_count>>
    /\ UNCHANGED auxVars

\* Message::Ready
HandleReady ==
    /\ pc = "get"
    /\ queue # <<>>
    /\ Head(queue) = "Ready"
    /\ queue' = Tail(queue)
    /\ active_voltage' = requested_voltage
    /\ active_max_current' = requested_max_current
    /\ requested_voltage' = 0
    /\ requested_max_current' = 0
    /\ notes' = <<"PowerReady">>
    /\ pc' = "poll"
    /\ last_op' = "Ready"
    /\ req_phase' = "none"
    /\ UNCHANGED <<protocol_, spec_rev, drv_state, caps, last_req, sent_count>>
    /\ UNCHANGED auxVars

\* Message::SourceCapabilities(caps): notify selects an offer and requests it;
\* request_power assigns no field of the Sink
HandleSourceCaps ==
    /\ pc = "get"
    /\ queue # <<>>
    /\ Head(queue) = "SourceCapabilities"
    /\ sent_count < MaxSent
    /\ queue' = Tail(queue)
    /\ \E cs \in CapsUniverse :
         /\ caps' = cs
         /\ \E o \in notify_caps(cs) :
              IF o.ok
              THEN /\ last_req' = o.req
                   /\ sent_count' = sent_count + 1
                   /\ req_phase' = "open"
                   /\ pc' = "poll"
              ELSE /\ pc' = "panicked"
                   /\ UNCHANGED <<last_req, sent_count, req_phase>>
    /\ notes' = <<"SourceCapabilitiesChanged">>
    /\ last_op' = "SourceCapabilities"
    /\ UNCHANGED <<sinkFields, drv_state>>
    /\ UNCHANGED auxVars

\* Message::Unknown => unimplemented!()
HandleUnknown ==
    /\ pc = "get"
    /\ queue # <<>>
    /\ Head(queue) = "Unknown"
    /\ queue' = Tail(queue)
    /\ pc' = "panicked"
    /\ notes' = <<>>
    /\ last_op' = "Unknown"
    /\ UNCHANGED <<sinkFields, drv_state, caps, last_req, sent_count, req_phase>>
    /\ UNCHANGED auxVars

Next ==
    \/ SinkInit
    \/ PollEnter
    \/ DrvPoll
    \/ GetNone
    \/ HandleStateChanged
    \/ HandleAccept
    \/ HandleReject
    \/ HandleReady
    \/ HandleSourceCaps
    \/ HandleUnknown

Spec == Init /\ [][Next]_vars

\* ------------------------------------------- request encoding on its own
\* request_power applied once, on a new Sink, to any u16 current (it is
\* private to the Sink, and notify only passes it multiples of 10 up to 10230)
EncVoltages == {9000}

RequestPowerCall ==
    /\ pc = "idle"
    /\ last_op = "new"
    /\ \E v \in EncVoltages, c \in 0..U16Max :
         \E o \in request_power(v, c, 1) :
              IF o.ok
              THEN /\ last_req' = o.req
                   /\ sent_count' = sent_count + 1
                   /\ req_phase' = "open"
                   /\ pc' = "idle"
              ELSE /\ pc' = "panicked"
                   /\ UNCHANGED <<last_req, sent_count, req_phase>>
    /\ notes' = <<>>
    /\ last_op' = "request_power"
    /\ UNCHANGED <<sinkFields, drv_state, queue, caps>>
    /\ UNCHANGED auxVars

NextEnc == RequestPowerCall

SpecEnc == Init /\ [][NextEnc]_vars

\* ------------------------------------------------------------ Message::parse
\* A u32 is kept as its four base-256 digits, most significant first.
\* LittleEndian::read_u32 of a 4-byte chunk
read_u32(buf) == <<buf[4], buf[3], buf[2], buf[1]>>

\* PowerDataObjectRaw::kind: bits 31..30
pdo_kind(w) == w[1] \div 64

\* AugmentedPowerDataObjectRaw::supply: bits 29..28
apdo_supply(w) == (w[1] \div 16) % 4

\* payload.chunks_exact(4): the whole chunks, a remainder left out
chunks_exact(payload) ==
    [k \in 1..(Len(payload) \div 4) |-> SubSeq(payload, 4 * k - 3, 4 * k)]

\* Iterator::take(n)
take(xs, n) == SubSeq(xs, 1, IF n < Len(xs) THEN n ELSE Len(xs))

\* the closure of the second map: None stands for unreachable!()
decode_pdo(w) ==
    CASE pdo_kind(w) = 0 -> [ok |-> TRUE, kind |-> "FixedSupply", raw |-> w]
      [] pdo_kind(w) = 1 -> [ok |-> TRUE, kind |-> "Battery", raw |-> w]
      [] pdo_kind(w) = 2 -> [ok |-> TRUE, kind |-> "VariableSupply", raw |-> w]
      [] pdo_kind(w) = 3 /\ apdo_supply(w) = 0
           -> [ok |-> TRUE, kind |-> "SPR", raw |-> w]
      [] pdo_kind(w) = 3 /\ apdo_supply(w) = 1
           -> [ok |-> TRUE, kind |-> "EPR", raw |-> w]
      [] OTHER -> [ok |-> FALSE, kind |-> "unreachable", raw |-> w]

ParsePanic == [done |-> TRUE, ok |-> FALSE]

Parsed(m) == [done |-> TRUE, ok |-> TRUE, msg |-> m]

\* Message::parse; collect() into the Vec panics past its capacity
parse(header, payload) ==
    CASE header.message_type = "Accept" -> Parsed([type |-> "Accept"])
      [] header.message_type = "Reject" -> Parsed([type |-> "Reject"])
      [] header.message_type = "PsRdy" -> Parsed([type |-> "Ready"])
      [] header.message_type = "SoftReset" -> Parsed([type |-> "SoftReset"])
      [] header.message_type = "SourceCapabilities" ->
           LET words == take(chunks_exact(payload), header.num_objects)
               objs  == [k \in 1..Len(words) |-> decode_pdo(read_u32(words[k]))]
           IN  IF \E k \in 1..Len(objs) : ~objs[k].ok THEN ParsePanic
               ELSE IF Len(objs) > VecCapacity THEN ParsePanic
               ELSE Parsed([type |-> "SourceCapabilities",
                            objects |-> [k \in 1..Len(objs) |->
                                [kind |-> objs[k].kind, raw |-> objs[k].raw]]])
      [] header.message_type = "VendorDefined" ->
           LET first == take(chunks_exact(payload), 1)
           IN  IF first = <<>> THEN ParsePanic
               ELSE Parsed([type |-> "VendorDefined",
                            header |-> read_u32(first[1])])
      [] OTHER -> Parsed([type |-> "Unknown"])

\* the frames parse is applied to
MessageTypes == {"Accept", "Reject", "PsRdy", "SoftReset", "GoodCrc",
                 "SourceCapabilities", "VendorDefined", "Request"}

Headers == [message_type : MessageTypes, num_objects : 0..MaxNumObjects]

\* one word for each arm of the decoder, and one with supply sub-tag 10
Words == {<<0, 2, 208, 150>>, <<64, 0, 0, 5>>, <<128, 0, 0, 7>>,
          <<192, 0, 0, 9>>, <<208, 0, 0, 11>>, <<224, 0, 0, 0>>}

ToLE(w) == <<w[4], w[3], w[2], w[1]>>

RECURSIVE Flatten(_)
Flatten(ws) == IF ws = <<>> THEN <<>> ELSE ToLE(Head(ws)) \o Flatten(Tail(ws))

\* up to MaxWords words, then 0 to 3 bytes of a cut-off word
Payloads ==
    {Flatten(ws) \o SubSeq(<<224, 224, 224>>, 1, r) :
        ws \in UNION {[1..n -> Words] : n \in 0..MaxWords}, r \in 0..3}

\* Message::parse applied once to any of these frames
ParseCall ==
    /\ ~parse_in.given
    /\ \E h \in Headers, p \in Payloads :
         /\ parse_in' = [given |-> TRUE, header |-> h, payload |-> p]
         /\ parse_out' = parse(h, p)
    /\ last_op' = "parse"
    /\ UNCHANGED <<sinkFields, drv_state, queue, pc, caps, last_req, notes,
                   sent_count, req_phase, histVars>>

NextParse == ParseCall

SpecParse == Init /\ [][NextParse]_vars

\* ------------------------------------- selection and request on their own
\* notify(SourceCapabilitiesChanged) applied once, on a new Sink, to a single
\* FixedSupply with any 10-bit current and a spread of 10-bit voltages
RoundVoltages == {0, 1, 100, 180, 1023}

RoundCurrents == 0..CurrentFieldMax

NotifyCapsCall ==
    /\ pc = "idle"
    /\ last_op = "new"
    /\ \E v \in RoundVoltages, c \in RoundCurrents :
         /\ caps' = <<Fixed(v, c)>>
         /\ \E o \in notify_caps(<<Fixed(v, c)>>) :
              IF o.ok
              THEN /\ last_req' = o.req
                   /\ sent_count' = sent_count + 1
                   /\ req_phase' = "open"
                   /\ pc' = "idle"
              ELSE /\ pc' = "panicked"
                   /\ UNCHANGED <<last_req, sent_count, req_phase>>
    /\ notes' = <<"SourceCapabilitiesChanged">>
    /\ last_op' = "notify"
    /\ UNCHANGED <<sinkFields, drv_state, queue>>
    /\ UNCHANGED auxVars

NextRound == NotifyCapsCall

SpecRound == Init /\ [][NextRound]_vars

\* ------------------------------------------------ one poll call, observed
\* A poll call on a transceiver that already holds its events and queues no
\* more during the call; none is Unknown and every SourceCapabilities holds
\* one object, a FixedSupply.  The call's history is recorded.
Revs == {1, 2}

DrainEvents == EventKinds \ {"Unknown"}

QueueUniverse == UNION {[1..n -> DrainEvents] : n \in 0..MaxQueue}

InitDrain ==
    /\ protocol_ = "Usb20"
    /\ requested_voltage = 0
    /\ requested_max_current = 0
    /\ active_voltage = DefaultVoltage
    /\ active_max_current = DefaultCurrent
    /\ spec_rev = 1
    /\ drv_state \in State
    /\ queue \in QueueUniverse
    /\ pc = "idle"
    /\ caps = <<>>
    /\ last_req = NoReq
    /\ notes = <<>>
    /\ last_op = "new"
    /\ sent_count = 0
    /\ req_phase = "none"
    /\ entry_queue = <<>>
    /\ rx_revs = <<>>
    /\ drv_polls = 0
    /\ parse_in = NoFrame
    /\ parse_out = NotParsed

DrainPollEnter ==
    /\ entry_queue = <<>>
    /\ PollEnterBody
    /\ entry_queue' = queue
    /\ \E rs \in [1..Len(queue) -> Revs] : rx_revs' = rs
    /\ drv_polls' = 0
    /\ UNCHANGED parseVars

DrainDrvPoll ==
    /\ DrvPollBody
    /\ queue' = queue
    /\ drv_polls' = drv_polls + 1
    /\ UNCHANGED <<entry_queue, rx_revs, parseVars>>

DrainSourceCaps ==
    /\ HandleSourceCaps
    /\ Len(caps') = 1
    /\ pc' # "panicked"

NextDrain ==
    \/ DrainPollEnter
    \/ DrainDrvPoll
    \/ GetNone
    \/ HandleStateChanged
    \/ HandleAccept
    \/ HandleReject
    \/ HandleReady
    \/ DrainSourceCaps

\* poll is one call: nothing but the transceiver can hold it up
SpecDrain == InitDrain /\ [][NextDrain]_vars /\ WF_vars(NextDrain)

\* ------------------------------------------------------------------ claims
DefaultContract == <<DefaultVoltage, DefaultCurrent>>

ActiveContract == <<active_voltage, active_max_current>>

Emits(ns, e) == \E i \in DOMAIN ns : ns[i] = e

\* the 1-based place of the last FixedSupply of maximum voltage in cs
LastMaxFixed(cs) ==
    LET F == {k \in 1..Len(cs) : cs[k].kind = "FixedSupply"}
        M == {k \in F : \A j \in F : cs[j].voltage <= cs[k].voltage}
    IN  CHOOSE k \in M : \A j \in M : j <= k

EncodedCurrent(mA) ==
    IF (mA + 5) \div 10 > 1023 THEN 1023 ELSE (mA + 5) \div 10

\* C1: when Ready is handled while the last Request is still unanswered and
\* no StateChanged came in between, the active contract becomes that
\* Request's voltage and current and requested_* become 0.
C1_ReadyCommitsRequest ==
    [][(last_op' = "Ready" /\ req_phase = "open")
         => /\ active_voltage' = last_req.voltage
            /\ active_max_current' = last_req.max_current
            /\ requested_voltage' = 0
            /\ requested_max_current' = 0]_vars

\* C2: the active contract only ever changes to the USB default, or, when
\* Ready is handled for an unanswered Request, to that Request's values.
C2_ActiveDefaultOrCommitted ==
    [][(ActiveContract' # ActiveContract)
         => \/ ActiveContract' = DefaultContract
            \/ /\ last_op' = "Ready"
               /\ req_phase # "none"
               /\ ActiveContract' = <<last_req.voltage, last_req.max_current>>]_vars

\* C3: from the moment a Request is sent until Reject or Ready is handled,
\* requested_voltage and requested_max_current hold the Request's values.
C3_RequestedHoldsRequest ==
    req_phase # "none"
      => /\ requested_voltage = last_req.voltage
         /\ requested_max_current = last_req.max_current

\* C4: requested_* is non-zero only while a Request is unanswered: with no
\* Request sent, or after Reject or Ready, both are 0.
C4_RequestedZeroUnlessOpen ==
    req_phase = "none" => (requested_voltage = 0 /\ requested_max_current = 0)

C4_Witness ==
    /\ last_op \in {"Reject", "Ready"}
    /\ last_req.sent
    /\ req_phase = "none"
    /\ requested_voltage = 0

\* C5: handling Reject zeroes requested_*, notifies PowerRejected, sends
\* nothing and leaves active_*, Protocol and spec_rev alone.
C5_RejectFrame ==
    [][(last_op' = "Reject")
         => /\ requested_voltage' = 0
            /\ requested_max_current' = 0
            /\ notes' = <<"PowerRejected">>
            /\ UNCHANGED <<active_voltage, active_max_current, protocol_,
                           spec_rev, last_req, sent_count>>]_vars

C5_Witness ==
    /\ last_op = "Reject"
    /\ last_req.sent
    /\ notes = <<"PowerRejected">>
    /\ ActiveContract # <<0, 0>>

\* C6: after init() and after a StateChanged event, Protocol is UsbPd
\* exactly when the transceiver state is UsbPd; in the other three states
\* Protocol is Usb20 and the active contract is 5000/900.
C6_ProtocolCollapse ==
    last_op \in {"init", "StateChanged"}
      => /\ (protocol_ = "UsbPd") <=> (drv_state = "UsbPd")
         /\ drv_state \in {"Usb20", "UsbPdWait", "UsbRetryWait"}
              => (protocol_ = "Usb20" /\ ActiveContract = <<5000, 900>>)

C6_Witness ==
    /\ last_op = "StateChanged"
    /\ drv_state \in {"UsbPdWait", "UsbRetryWait"}
    /\ last_req.sent
    /\ protocol_ = "Usb20"

\* C7 as claimed: a step emits ProtocolChanged exactly when it changes
\* Protocol, init() included.
C7_Original ==
    [][(protocol_' # protocol_) <=> Emits(notes', "ProtocolChanged")]_vars

\* C7 as amended: exactly one ProtocolChanged is emitted by a StateChanged
\* event that changes Protocol, and none by any other step: not by a
\* StateChanged that leaves Protocol as it is, and not by init(), even when
\* init() changes Protocol.
C7_EdgeTriggeredOnStateChanged ==
    [][IF last_op' = "StateChanged" /\ protocol_' # protocol_
       THEN notes' = <<"ProtocolChanged">>
       ELSE ~Emits(notes', "ProtocolChanged")]_vars

C7_Witness ==
    /\ last_op = "StateChanged"
    /\ notes = <<"ProtocolChanged">>
    /\ protocol_ = "Usb20"

\* C8: a SourceCapabilities message with a FixedSupply yields a Request
\* whose object position is the 1-based place, in the whole list, of the
\* last FixedSupply of maximum voltage.
C8_LastMaxFixedSelected ==
    (/\ last_op = "SourceCapabilities"
     /\ \E k \in DOMAIN caps : caps[k].kind = "FixedSupply")
      => /\ pc # "panicked"
         /\ last_req.rdo.object_position = LastMaxFixed(caps)
         /\ caps[last_req.rdo.object_position].kind = "FixedSupply"

C8_Witness ==
    /\ last_op = "SourceCapabilities"
    /\ caps = <<Fixed(100, 90), Fixed(180, 150), Battery, Fixed(180, 150)>>
    /\ last_req.rdo.object_position = 4

\* C9: for every u16 current given to request_power, both current fields of
\* the Request are min(1023, (current + 5) div 10) and nothing fails.
C9_CurrentEncoding ==
    last_op = "request_power"
      => /\ pc # "panicked"
         /\ last_req.rdo.operating_current = EncodedCurrent(last_req.max_current)
         /\ last_req.rdo.maximum_operating_current
              = EncodedCurrent(last_req.max_current)

\* C10: every frame sent is a Request with num_objects = 1 from a Sink,
\* carrying one 4-byte word with both flags set.
C10_FrameShape ==
    last_req.sent
      => /\ last_req.header.message_type = "Request"
         /\ last_req.header.num_objects = 1
         /\ last_req.header.port_power_role = "Sink"
         /\ last_req.payload_len = 4
         /\ last_req.header.num_objects * 4 = last_req.payload_len
         /\ last_req.rdo.no_usb_suspend
         /\ last_req.rdo.usb_communications_capable

C10_Witness ==
    /\ last_op = "SourceCapabilities"
    /\ last_req.sent
    /\ sent_count > 0

HasFixed(cs) == \E k \in DOMAIN cs : cs[k].kind = "FixedSupply"

\* C11: a step sends (exactly one frame) if and only if it handles a
\* SourceCapabilities message that holds a FixedSupply; StateChanged,
\* Accept, Reject and Ready never send, so the number of Requests sent is
\* the number of such messages handled.
C11_OneSendPerCaps ==
    [][/\ (sent_count' # sent_count)
            <=> (last_op' = "SourceCapabilities" /\ HasFixed(caps'))
       /\ (sent_count' # sent_count)
            => (sent_count' = sent_count + 1 /\ last_req'.sent /\ pc' = "poll")]_vars

C11_Witness ==
    /\ last_op = "SourceCapabilities"
    /\ HasFixed(caps)
    /\ last_req.sent
    /\ sent_count = 2

\* C12: the engine never terminates abnormally: after an Unknown message or
\* a SourceCapabilities message without FixedSupply it is back in its loop,
\* ready for the next event.
C12_NoAbnormalTermination ==
    /\ pc # "panicked"
    /\ (last_op = "Unknown" \/ (last_op = "SourceCapabilities" /\ ~HasFixed(caps)))
         => pc = "poll"

\* C16: init() computes Protocol from the state the transceiver has after
\* its own init(), resets the active contract to 5000/900 unless that state
\* is UsbPd, and notifies nothing, even when Protocol changes.
C16_InitSilentRecompute ==
    [][(last_op' = "init")
         => /\ notes' = <<>>
            /\ (protocol_' = "UsbPd") <=> (drv_state' = "UsbPd")
            /\ drv_state' # "UsbPd" => ActiveContract' = DefaultContract
            /\ drv_state' = "UsbPd" => ActiveContract' = ActiveContract]_vars

C16_Witness ==
    /\ last_op = "init"
    /\ protocol_ = "UsbPd"
    /\ sent_count = 0
    /\ notes = <<>>

\* C19: whenever Protocol is Usb20 the active contract is the USB default.
C19_Usb20ImpliesDefault ==
    protocol_ = "Usb20" => ActiveContract = DefaultContract

\* events of entry_queue dispatched so far in the observed poll call
Dispatched == Len(entry_queue) - Len(queue)

\* the revision of the last message dispatched, 1 when there is none yet
LastRxRev ==
    LET msgs == {i \in 1..Dispatched : entry_queue[i] # "StateChanged"}
    IN  IF msgs = {} THEN 1
        ELSE rx_revs[CHOOSE i \in msgs : \A j \in msgs : j <= i]

\* C17: a poll call on a queue of k events that gets no more events returns;
\* each pass calls the transceiver's poll and then get_event, every event is
\* popped from the head and handled by its own handler before the next pass,
\* and at the return the queue is empty after k + 1 transceiver polls.
C17_PollDrains ==
    /\ [](last_op = "return"
            => (queue = <<>> /\ drv_polls = Len(entry_queue) + 1))
    /\ [](pc \in {"poll", "get"}
            => /\ Dispatched >= 0
               /\ queue = SubSeq(entry_queue, Dispatched + 1, Len(entry_queue))
               /\ drv_polls = Dispatched + (IF pc = "get" THEN 1 ELSE 0))
    /\ [][(pc = "get" /\ queue # <<>>)
            => (last_op' = Head(queue) /\ queue' = Tail(queue) /\ pc' = "poll")]_vars
    /\ [][(pc = "poll") => (last_op' = "drv_poll" /\ pc' = "get")]_vars
    /\ ((pc = "poll") ~> (last_op = "return"))

C17_Witness ==
    /\ last_op = "return"
    /\ Len(entry_queue) = 2
    /\ entry_queue[1] # entry_queue[2]
    /\ drv_polls = 3
    /\ queue = <<>>

\* C18: every Request header carries spec_rev, and spec_rev is the revision
\* of the last message received (1 before the first).
C18_SpecRevTracksMessages ==
    /\ last_req.sent => last_req.header.spec_revision = spec_rev
    /\ spec_rev = LastRxRev

\* C20: for a selected FixedSupply with 10-bit fields v and c, v*50 and c*10
\* fit in 16 bits and are what is requested, and both current fields of the
\* Request are c again: rounding and the clamp change nothing.
C20_CurrentRoundTrip ==
    last_op = "notify"
      => /\ pc # "panicked"
         /\ caps[1].voltage * 50 <= U16Max
         /\ caps[1].max_current * 10 <= U16Max
         /\ last_req.voltage = caps[1].voltage * 50
         /\ last_req.max_current = caps[1].max_current * 10
         /\ (caps[1].max_current * 10 + 5) \div 10 = caps[1].max_current
         /\ last_req.rdo.operating_current = caps[1].max_current
         /\ last_req.rdo.maximum_operating_current = caps[1].max_current

C20_Witness ==
    /\ last_op = "notify"
    /\ caps = <<Fixed(1023, 1023)>>
    /\ last_req.voltage = 51150
    /\ last_req.rdo.operating_current = 1023

\* the variant a word decodes to, by its two tag fields
KindOfTags ==
    [t \in {0, 1, 2, 3} \X {0, 1, 2, 3} |->
        CASE t[1] = 0 -> "FixedSupply"
          [] t[1] = 1 -> "Battery"
          [] t[1] = 2 -> "VariableSupply"
          [] t[1] = 3 /\ t[2] = 0 -> "SPR"
          [] t[1] = 3 /\ t[2] = 1 -> "EPR"
          [] OTHER -> "none"]

\* the k-th little-endian word of a payload, most significant byte first
WordAt(p, k) == <<p[4 * k], p[4 * k - 1], p[4 * k - 2], p[4 * k - 3]>>

ParsedCaps ==
    /\ parse_out.done
    /\ parse_in.header.message_type = "SourceCapabilities"

\* C13: parsing SourceCapabilities with num_objects = n and len payload bytes
\* yields min(n, len div 4) objects, at most 8, the k-th the decode of the
\* k-th little-endian word.
C13_ParseCapsCount ==
    ParsedCaps
      => /\ parse_out.ok
         /\ parse_out.msg.type = "SourceCapabilities"
         /\ Len(parse_out.msg.objects) <= 8
         /\ Len(parse_out.msg.objects)
              = (IF parse_in.header.num_objects < Len(parse_in.payload) \div 4
                 THEN parse_in.header.num_objects
                 ELSE Len(parse_in.payload) \div 4)
         /\ \A k \in 1..Len(parse_out.msg.objects) :
              /\ parse_out.msg.objects[k].raw = WordAt(parse_in.payload, k)
              /\ parse_out.msg.objects[k].kind
                   = KindOfTags[<<WordAt(parse_in.payload, k)[1] \div 64,
                                  (WordAt(parse_in.payload, k)[1] \div 16) % 4>>]

\* C14: parse always returns: a Message for every header and payload, and
\* Unknown for every type but Accept, Reject, PsRdy, SoftReset,
\* SourceCapabilities and VendorDefined.
C14_ParseTotal ==
    parse_out.done
      => /\ parse_out.ok
         /\ parse_in.header.message_type
              \notin {"Accept", "Reject", "PsRdy", "SoftReset",
                      "SourceCapabilities", "VendorDefined"}
              => parse_out.msg.type = "Unknown"
====
